---- MODULE Spec2Model ----
(***************************************************************************)
(* Model of the PII anonymizer (RegexAnonymizer in                         *)
(* src/src/anonymizer/regex.py and its standalone twin chat-anaonymizer.py)*)
(*                                                                         *)
(* Conventions                                                             *)
(*  - a string of the program is a sequence of one-character strings;      *)
(*  - offsets are the program's 0-based half-open offsets, a Python slice  *)
(*    text[a:b] is the operator Slice(text, a, b);                         *)
(*  - a span is the dict {"start", "end", "label"} of the program;         *)
(*  - a float returned by sklearn is the exact rational <<num, den>> in    *)
(*    lowest terms;                                                        *)
(*  - None is the empty sequence, a value v that may be None is <<v>>.     *)
(*  - the detector sources (re.finditer, the spaCy model) are black boxes: *)
(*    each yields, nondeterministically, any list of matches such a source *)
(*    can yield on a text of that length (non-empty, inside the text,      *)
(*    ascending and pairwise disjoint).                                    *)
(*  - an exception that leaves a method is the variable error together    *)
(*    with pc = "raised"; the only failure modelled is the spaCy model     *)
(*    rejecting a text longer than its max_length;                         *)
(*  - PresidioAnonymizer (src/src/anonymizer/presidio.py) and the action   *)
(*    handlers of the GUI (src/src/anonymizer/gui/app.py) are modelled     *)
(*    further down, the Presidio engines by their documented contract.     *)
(***************************************************************************)
EXTENDS Integers, Sequences, FiniteSets, TLC

VARIABLES
    text,                \* the text argument of the running / last call
    op,                  \* the public method running or last run
    pc,                  \* position inside that method
    matches,             \* anonymize_text: local list matches
    filtered,            \* anonymize_text: local list filtered
    current_end,         \* anonymize_text: local current_end
    idx,                 \* position of the running for-loop (1-based)
    anonymized_text,     \* anonymize_text: local anonymized_text
    last_index,          \* anonymize_text: local last_index
    origin,              \* ghost: origin[k] says where anonymized_text[k] comes from
    result,              \* <<AnonymizationResult>> returned by anonymize_text
    labeled_text,        \* evaluate_anonymization: argument labeled_text
    expected_entities,   \* evaluate_*: local expected_entities
    anonymized_entities, \* evaluate_*: local anonymized_entities
    y_true,              \* evaluate_*: local y_true
    y_pred,              \* evaluate_*: local y_pred
    metrics,             \* <<dict>> returned by evaluate_*
    case_no,             \* evaluate_test_cases: number of test cases consumed
    given,               \* resolver harness: the candidate list as handed over
    error,               \* <<exception>> in flight out of the running call, or <<>>
    completed,           \* ghost: the detector sources that ran to their end in this call
    buttons,             \* GUI: state of the three action buttons
    dialog,              \* GUI: <<message box>> shown by the running handler, or <<>>
    cursor,              \* GUI: cursor of the root window
    current_anonymizer,  \* GUI: self.current_anonymizer, by its key in self.anonymizers
    pending,             \* GUI: the events Tk has queued and not dispatched yet
    stack,               \* GUI: the handlers suspended inside root.update(), innermost last
    calling,             \* ghost: the anonymizer of every engine call in flight
    inputs               \* ghost: the number of events the user has produced

vars == <<text, op, pc, matches, filtered, current_end, idx, anonymized_text,
          last_index, origin, result, labeled_text, expected_entities,
          anonymized_entities, y_true, y_pred, metrics, case_no, given,
          error, completed, buttons, dialog, cursor, current_anonymizer,
          pending, stack, calling, inputs>>

anonVars == <<matches, filtered, current_end, anonymized_text, last_index, origin>>
evalVars == <<labeled_text, expected_entities, anonymized_entities, y_true, y_pred,
              metrics, case_no>>
excVars == <<error, completed>>
guiVars == <<buttons, dialog, cursor, current_anonymizer, pending, stack, calling,
             inputs>>
eventVars == <<current_anonymizer, pending, stack, calling, inputs>>

----------------------------------------------------------------------------
(* Bounds of the model *)

MaxTextLen == 3          \* longest text handed to anonymize_text
MaxRawLen == 2           \* longest raw_text handed to evaluate_anonymization
MaxLabeledItems == 3     \* longest labeled_text, in items (a placeholder or a stray "[")
MaxCases == 2            \* longest test_cases list
MaxCaseTextLen == 1      \* longest raw text of a test case
MaxCaseItems == 1        \* longest expected text of a test case, in items
MaxCands == 3            \* longest candidate list handed to the bare sort-and-sweep
MaxOffset == 2           \* largest offset of such a candidate

----------------------------------------------------------------------------
(* Strings *)

Alphabet == <<"a", "b", "c", "d", "e", "f">>

\* the input texts: one text per length, all characters distinct, so that the
\* output shows which input character every copied character is
TextOfLen(n) == SubSeq(Alphabet, 1, n)

\* input texts that hold the delimiters of a placeholder themselves
Bracketed == <<"[", "a", "]", "[", "b", "]">>
BracketedOfLen(n) == SubSeq(Bracketed, 1, n)

PlainTexts(maxlen) == { TextOfLen(n) : n \in 0..maxlen }
Texts(maxlen) == PlainTexts(maxlen) \cup { BracketedOfLen(n) : n \in 0..maxlen }

LabelChars(l) ==
    CASE l = "US_PASSPORT" -> <<"U","S","_","P","A","S","S","P","O","R","T">>
      [] l = "US_DRIVER_LICENSE" ->
             <<"U","S","_","D","R","I","V","E","R","_","L","I","C","E","N","S","E">>
      [] l = "PERSON" -> <<"P","E","R","S","O","N">>
      [] l = "ORG" -> <<"O","R","G">>
      [] l = "PHONE" -> <<"P","H","O","N","E">>
      [] l = "EMAIL" -> <<"E","M","A","I","L">>

Min(a, b) == IF a < b THEN a ELSE b
Max(a, b) == IF a > b THEN a ELSE b

\* Python's s[a:b] for a sequence s: negative offsets count from the end,
\* offsets are clamped to the sequence, an empty range gives the empty string
SliceBound(i, n) == IF i < 0 THEN Max(i + n, 0) ELSE Min(i, n)

Slice(s, a, b) ==
    LET lo == SliceBound(a, Len(s))
        hi == SliceBound(b, Len(s))
    IN  IF lo >= hi THEN <<>> ELSE SubSeq(s, lo + 1, hi)

\* the 0-based offsets of s that Slice(s, a, b) copies, in order
SliceOffsets(s, a, b) ==
    LET lo == SliceBound(a, Len(s))
        hi == SliceBound(b, Len(s))
    IN  IF lo >= hi THEN <<>> ELSE [k \in 1..(hi - lo) |-> lo + k - 1]

----------------------------------------------------------------------------
(* Detector sources *)

\* keys of self.regex_patterns, in dictionary order (the model keeps one of the nine)
regex_patterns == <<"US_PASSPORT">>

\* self.us_driver_license_patterns: the label each pattern contributes
\* (the model keeps one of the three)
us_driver_license_patterns == <<"US_DRIVER_LICENSE">>

\* entity labels the spaCy model may assign (two of them), and the ones kept
NlpLabels == {"PERSON", "ORG"}
KeptNlpLabels == {"PERSON", "GPE", "LOC"}

Span(s, e, l) == [start |-> s, end |-> e, label |-> l]

\* what one pattern.finditer(text) can yield on a text of length n, from
\* offset from on: non-empty matches, ascending, pairwise disjoint
RECURSIVE Finditer(_, _)
Finditer(from, n) ==
    {<<>>} \cup
    UNION { { <<p>> \o rest : rest \in Finditer(p[2], n) } :
            p \in { q \in (from..(n - 1)) \X ((from + 1)..n) : q[1] < q[2] } }

\* what doc.ents can be on a text of length n: disjoint ascending entities,
\* each with a label of the model
RECURSIVE DocEnts(_, _)
DocEnts(from, n) ==
    {<<>>} \cup
    UNION { { <<Span(p[1], p[2], p[3])>> \o rest : rest \in DocEnts(p[2], n) } :
            p \in { q \in (from..(n - 1)) \X ((from + 1)..n) \X NlpLabels : q[1] < q[2] } }

\* matches.append({...}) for every match of one pattern, labelled label
Labelled(found, label) ==
    [k \in 1..Len(found) |-> Span(found[k][1], found[k][2], label)]

\* the entities of doc.ents that pass the label test of line 66
RECURSIVE KeptEnts(_)
KeptEnts(ents) ==
    IF ents = <<>> THEN <<>>
    ELSE (IF Head(ents).label \in KeptNlpLabels THEN <<Head(ents)>> ELSE <<>>)
         \o KeptEnts(Tail(ents))

\* the longest text self.nlp accepts (spaCy's Language.max_length, 10**6 in
\* the library, scaled here to the longest text the model lets it analyse)
nlp_max_length == MaxTextLen

\* a model that rejects the empty text as well
NlpRaises_OnEmpty(t) == Len(t) = 0 \/ Len(t) > nlp_max_length

\* self.nlp(text) raises ValueError [E088] on a text longer than max_length
NlpRaises(t) == Len(t) > nlp_max_length

\* a text the spaCy model rejects
LongText == TextOfLen(nlp_max_length + 1)

\* a statement that swallows the exception and goes on
AfterRaise_Swallowed(next) == next

\* where control goes when a statement of the engine raises, next being the
\* position behind that statement: no statement of regex.py is inside a try,
\* the exception leaves the method
AfterRaise(next) == "raised"

\* the exception in flight, if control left the method with one
Raised(exc, next) == IF AfterRaise(next) = "raised" THEN <<exc>> ELSE <<>>

----------------------------------------------------------------------------
(* Span Resolver: sort and sweep (regex.py 71-80) *)

\* a sort key (m["start"], m["end"]): the shorter span first
KeyLE_AscendingEnd(a, b) ==
    \/ a.start < b.start
    \/ a.start = b.start /\ a.end <= b.end

\* a sort key m["start"] alone
KeyLE_StartOnly(a, b) == a.start <= b.start

\* a sort key m["end"]: the span that ends first first
KeyLE_EndFirst(a, b) == a.end <= b.end

\* key(a) <= key(b) for the sort key of line 72, (m["start"], -m["end"])
KeyLE(a, b) ==
    \/ a.start < b.start
    \/ a.start = b.start /\ (0 - a.end) <= (0 - b.end)

\* an unstable sort: an element goes in front of the elements whose key
\* equals its own
InsertStable_BeforeEquals(sorted, m) ==
    LET k == Cardinality({i \in 1..Len(sorted) : ~ KeyLE(m, sorted[i])})
    IN  SubSeq(sorted, 1, k) \o <<m>> \o SubSeq(sorted, k + 1, Len(sorted))

\* list.sort is stable: an element goes behind every element whose key is
\* not larger than its own
InsertStable(sorted, m) ==
    LET k == Cardinality({i \in 1..Len(sorted) : KeyLE(sorted[i], m)})
    IN  SubSeq(sorted, 1, k) \o <<m>> \o SubSeq(sorted, k + 1, Len(sorted))

RECURSIVE SortMatches(_)
SortMatches(ms) ==
    IF ms = <<>> THEN <<>>
    ELSE InsertStable(SortMatches(SubSeq(ms, 1, Len(ms) - 1)), ms[Len(ms)])

\* a sweep that tests the end of the candidate instead of its start
Accepts_EndTest(m, ce) == m.end >= ce

\* a sweep that wants a gap in front of the candidate
Accepts_Strict(m, ce) == m.start > ce

\* a sweep that keeps every candidate
Accepts_Always(m, ce) == TRUE

\* the test of line 78
Accepts(m, ce) == m.start >= ce

\* an iteration that accepts without moving current_end
FilterIter_KeepEnd(st, m) ==
    IF Accepts(m, st[2]) THEN <<Append(st[1], m), st[2]>> ELSE st

\* one iteration of the loop of lines 77-80 on the pair <<filtered, current_end>>
FilterIter(st, m) ==
    IF Accepts(m, st[2]) THEN <<Append(st[1], m), m.end>> ELSE st

RECURSIVE FilterFrom(_, _, _)
FilterFrom(ms, i, st) ==
    IF i > Len(ms) THEN st ELSE FilterFrom(ms, i + 1, FilterIter(st, ms[i]))

\* lines 71-80 as one function of the list matches
Resolve(ms) == FilterFrom(SortMatches(ms), 1, <<<<>>, 0>>)[1]

----------------------------------------------------------------------------
(* Text Substitution Engine (regex.py 82-91) *)

\* a placeholder that lacks its closing bracket
Placeholder_NoClose(label) == <<"[">> \o LabelChars(label)

\* f"[{m['label']}]"
Placeholder(label) == <<"[">> \o LabelChars(label) \o <<"]">>

\* a cursor that stays at the start of the span replaced
NextLastIndex_Start(m) == m.start

\* a cursor that skips the character behind the span replaced
NextLastIndex_Skip(m) == m.end + 1

\* last_index = m["end"]
NextLastIndex(m) == m.end

\* an iteration that drops the text between two spans
ReconstructIter_NoGap(t, st, m) == <<st[1] \o Placeholder(m.label), NextLastIndex(m)>>

\* one iteration of the loop of lines 85-88 on <<anonymized_text, last_index>>
ReconstructIter(t, st, m) ==
    <<st[1] \o Slice(t, st[2], m.start) \o Placeholder(m.label), NextLastIndex(m)>>

RECURSIVE ReconstructFrom(_, _, _, _)
ReconstructFrom(t, fl, i, st) ==
    IF i > Len(fl) THEN st[1] \o Slice(t, st[2], Len(t))
    ELSE ReconstructFrom(t, fl, i + 1, ReconstructIter(t, st, fl[i]))

\* anonymize_text as one function of the text and the collected matches
AnonymizeOp(t, ms) ==
    LET fl == Resolve(ms)
    IN  [text |-> ReconstructFrom(t, fl, 1, <<<<>>, 0>>), entities |-> fl]

\* ghost: the origin of the characters one iteration appends; a copied
\* character has the offset it was copied from, a character of the placeholder
\* of filtered[k] has -k
OriginIter(t, li, m, k) ==
    SliceOffsets(t, li, m.start) \o [j \in 1..Len(Placeholder(m.label)) |-> 0 - k]

----------------------------------------------------------------------------
(* RegexAnonymizer.anonymize_text, step by step *)

NoEval ==
    /\ labeled_text = <<>> /\ expected_entities = <<>> /\ anonymized_entities = <<>>
    /\ y_true = <<>> /\ y_pred = <<>> /\ metrics = <<>> /\ case_no = 0

ResetEval ==
    /\ labeled_text' = <<>> /\ expected_entities' = <<>> /\ anonymized_entities' = <<>>
    /\ y_true' = <<>> /\ y_pred' = <<>> /\ metrics' = <<>> /\ case_no' = 0

\* a method whose list of matches is not created afresh by the call
ResetAnon_KeepMatches ==
    /\ matches' = matches /\ filtered' = <<>> /\ current_end' = 0
    /\ anonymized_text' = <<>> /\ last_index' = 0 /\ origin' = <<>>

ResetAnon ==
    /\ matches' = <<>> /\ filtered' = <<>> /\ current_end' = 0
    /\ anonymized_text' = <<>> /\ last_index' = 0 /\ origin' = <<>>

\* a caller invokes anonymize_text(text)                       regex.py 42-43
AnonymizeCall ==
    /\ pc = "idle"
    /\ op' = "anonymize_text" /\ pc' = "regex" /\ idx' = 1
    /\ text' \in PlainTexts(MaxTextLen) \cup {LongText}
    /\ ResetAnon /\ ResetEval
    /\ result' = <<>>
    /\ UNCHANGED given
    /\ error' = <<>> /\ completed' = {}
    /\ UNCHANGED guiVars

\* one iteration of the loop over self.regex_patterns.items()   regex.py 46-50
CollectRegex ==
    /\ pc = "regex" /\ idx <= Len(regex_patterns)
    /\ \E found \in Finditer(0, Len(text)) :
          matches' = matches \o Labelled(found, regex_patterns[idx])
    /\ IF idx = Len(regex_patterns)
          THEN pc' = "dl" /\ idx' = 1
          ELSE pc' = pc /\ idx' = idx + 1
    /\ UNCHANGED <<text, op, filtered, current_end, anonymized_text, last_index,
                   origin, result, given>>
    /\ UNCHANGED evalVars
    /\ completed' = completed \cup {regex_patterns[idx]}
    /\ UNCHANGED error
    /\ UNCHANGED guiVars

\* one iteration of the loop over self.us_driver_license_patterns  regex.py 53-61
CollectDriverLicense ==
    /\ pc = "dl" /\ idx <= Len(us_driver_license_patterns)
    /\ \E found \in Finditer(0, Len(text)) :
          matches' = matches \o Labelled(found, us_driver_license_patterns[idx])
    /\ IF idx = Len(us_driver_license_patterns)
          THEN pc' = "nlp" /\ idx' = 1
          ELSE pc' = pc /\ idx' = idx + 1
    /\ UNCHANGED <<text, op, filtered, current_end, anonymized_text, last_index,
                   origin, result, given>>
    /\ UNCHANGED evalVars
    /\ completed' = completed \cup {us_driver_license_patterns[idx]}
    /\ UNCHANGED error
    /\ UNCHANGED guiVars

\* doc = self.nlp(text) and the loop over doc.ents              regex.py 64-69
CollectNlp ==
    /\ pc = "nlp" /\ ~ NlpRaises(text)
    /\ \E ents \in DocEnts(0, Len(text)) : matches' = matches \o KeptEnts(ents)
    /\ pc' = "sort"
    /\ UNCHANGED <<text, op, filtered, current_end, idx, anonymized_text, last_index,
                   origin, result, given>>
    /\ UNCHANGED evalVars
    /\ completed' = completed \cup {"nlp"}
    /\ UNCHANGED error
    /\ UNCHANGED guiVars

\* doc = self.nlp(text) raises                                  regex.py 64
CollectNlpRaises ==
    /\ pc = "nlp" /\ NlpRaises(text)
    /\ pc' = AfterRaise("sort")
    /\ error' = Raised("ValueError", "sort")
    /\ UNCHANGED <<text, op, idx, result, given, completed>>
    /\ UNCHANGED anonVars
    /\ UNCHANGED evalVars
    /\ UNCHANGED guiVars

\* matches.sort(...); filtered = []; current_end = 0            regex.py 72-76
SortStep ==
    /\ pc = "sort"
    /\ matches' = SortMatches(matches)
    /\ filtered' = <<>> /\ current_end' = 0 /\ idx' = 1
    /\ pc' = "filter"
    /\ UNCHANGED <<text, op, anonymized_text, last_index, origin, result, given>>
    /\ UNCHANGED evalVars
    /\ UNCHANGED excVars
    /\ UNCHANGED guiVars

\* one iteration of the loop of                                 regex.py 77-80
FilterStep ==
    /\ pc = "filter" /\ idx <= Len(matches)
    /\ LET st == FilterIter(<<filtered, current_end>>, matches[idx])
       IN  filtered' = st[1] /\ current_end' = st[2]
    /\ idx' = idx + 1
    /\ UNCHANGED <<text, op, pc, matches, anonymized_text, last_index, origin,
                   result, given>>
    /\ UNCHANGED evalVars
    /\ UNCHANGED excVars
    /\ UNCHANGED guiVars

\* the loop is over; anonymized_text = ""; last_index = 0       regex.py 83-84
FilterExit ==
    /\ pc = "filter" /\ idx > Len(matches)
    /\ anonymized_text' = <<>> /\ last_index' = 0 /\ origin' = <<>> /\ idx' = 1
    /\ pc' = "reconstruct"
    /\ UNCHANGED <<text, op, matches, filtered, current_end, result, given>>
    /\ UNCHANGED evalVars
    /\ UNCHANGED excVars
    /\ UNCHANGED guiVars

\* one iteration of the loop of                                 regex.py 85-88
ReconstructStep ==
    /\ pc = "reconstruct" /\ idx <= Len(filtered)
    /\ LET st == ReconstructIter(text, <<anonymized_text, last_index>>, filtered[idx])
       IN  anonymized_text' = st[1] /\ last_index' = st[2]
    /\ origin' = origin \o OriginIter(text, last_index, filtered[idx], idx)
    /\ idx' = idx + 1
    /\ UNCHANGED <<text, op, pc, matches, filtered, current_end, result, given>>
    /\ UNCHANGED evalVars
    /\ UNCHANGED excVars
    /\ UNCHANGED guiVars

\* anonymized_text += text[last_index:]; return                 regex.py 89-91
AnonymizeReturn ==
    /\ pc = "reconstruct" /\ idx > Len(filtered)
    /\ anonymized_text' = anonymized_text \o Slice(text, last_index, Len(text))
    /\ origin' = origin \o SliceOffsets(text, last_index, Len(text))
    /\ result' = <<[text |-> anonymized_text', entities |-> filtered]>>
    /\ pc' = "returned"
    /\ UNCHANGED <<text, op, matches, filtered, current_end, idx, last_index, given>>
    /\ UNCHANGED evalVars
    /\ UNCHANGED excVars
    /\ UNCHANGED guiVars


----------------------------------------------------------------------------
(* Evaluation Engine (regex.py 93-114, 146-165) *)

\* the smallest position >= i of s that holds c, or 0
RECURSIVE Find(_, _, _)
Find(s, c, i) ==
    IF i > Len(s) THEN 0 ELSE IF s[i] = c THEN i ELSE Find(s, c, i + 1)

\* re.findall(r"\[(.*?)\]", s) from position i on: the leftmost "[", the
\* nearest "]" behind it, the text between them, then on behind that "]"
\* (no text of the model holds a newline, which "." would not match)
RECURSIVE FindAllFrom(_, _)
FindAllFrom(s, i) ==
    LET open == Find(s, "[", i)
        close == IF open = 0 THEN 0 ELSE Find(s, "]", open + 1)
    IN  IF open = 0 \/ close = 0 THEN <<>>
        ELSE <<SubSeq(s, open + 1, close - 1)>> \o FindAllFrom(s, close + 1)

\* the greedy pattern \[(.*)\]: from the leftmost "[" to the last "]"
FindAll_Greedy(s) ==
    LET open == Find(s, "[", 1)
        closes == { i \in 1..Len(s) : s[i] = "]" /\ i > open }
    IN  IF open = 0 \/ closes = {} THEN <<>>
        ELSE <<SubSeq(s, open + 1, (CHOOSE i \in closes : \A j \in closes : j <= i) - 1)>>

FindAll(s) == FindAllFrom(s, 1)

\* a membership test that looks at the first element only
IsIn_FirstOnly(entity, list) == Len(list) > 0 /\ list[1] = entity

\* Python's  entity in list
IsIn(entity, list) == \E j \in 1..Len(list) : list[j] = entity

\* a positional comparison of the two token lists
PredFor_Positional(i, expected, actual) ==
    IF i <= Len(actual) /\ actual[i] = expected[i] THEN 1 ELSE 0

\* 1 if entity in anonymized_entities else 0, for entity = expected[i]
PredFor(i, expected, actual) == IF IsIn(expected[i], actual) THEN 1 ELSE 0

\* a second loop that counts every actual token as a false positive
IsFalsePositive_Always(i, expected, actual) == TRUE

\* a test that also counts an actual token as a false positive when it
\* occurs more often among the actual tokens than among the expected ones
IsFalsePositive_Surplus(i, expected, actual) ==
    \/ ~ IsIn(actual[i], expected)
    \/ Cardinality({ j \in 1..Len(actual) : actual[j] = actual[i] })
          > Cardinality({ j \in 1..Len(expected) : expected[j] = actual[i] })

\* the test of line 105 for entity = actual[i]
IsFalsePositive(i, expected, actual) == ~ IsIn(actual[i], expected)

\* an iteration that starts the two vectors afresh at the first token of a
\* list, as if y_true, y_pred = [], [] stood inside the loop over the cases
ExpectedIter_Restart(st, i, expected, actual) ==
    IF i = 1 THEN <<<<1>>, <<PredFor(i, expected, actual)>>>>
    ELSE <<Append(st[1], 1), Append(st[2], PredFor(i, expected, actual))>>

\* one iteration of the loop of lines 101-103 on <<y_true, y_pred>>
ExpectedIter(st, i, expected, actual) ==
    <<Append(st[1], 1), Append(st[2], PredFor(i, expected, actual))>>

\* one iteration of the loop of lines 104-107 on <<y_true, y_pred>>
ActualIter(st, i, expected, actual) ==
    IF IsFalsePositive(i, expected, actual)
    THEN <<Append(st[1], 0), Append(st[2], 1)>>
    ELSE st

\* sklearn's confusion counts for the positive label 1
TruePositives(yt, yp) == Cardinality({i \in 1..Len(yt) : yt[i] = 1 /\ yp[i] = 1})
FalsePositives(yt, yp) == Cardinality({i \in 1..Len(yt) : yt[i] = 0 /\ yp[i] = 1})
FalseNegatives(yt, yp) == Cardinality({i \in 1..Len(yt) : yt[i] = 1 /\ yp[i] = 0})

RECURSIVE GCD(_, _)
GCD(a, b) == IF b = 0 THEN a ELSE GCD(b, a % b)

\* the rational n/d, d > 0, in lowest terms
Rat(n, d) == LET g == GCD(n, d) IN <<n \div g, d \div g>>

\* the argument zero_division=0 of every score call
ZeroDivision == 0

\* a division that yields 1 where the denominator is 0
Ratio_OneAtZero(n, d, zero_division) == IF d = 0 THEN <<1, 1>> ELSE Rat(n, d)

\* sklearn's division: n/d, and zero_division where d = 0
Ratio(n, d, zero_division) == IF d = 0 THEN <<zero_division, 1>> ELSE Rat(n, d)

precision_score(yt, yp, zero_division) ==
    Ratio(TruePositives(yt, yp),
          TruePositives(yt, yp) + FalsePositives(yt, yp), zero_division)

recall_score(yt, yp, zero_division) ==
    Ratio(TruePositives(yt, yp),
          TruePositives(yt, yp) + FalseNegatives(yt, yp), zero_division)

\* the sum p+r in place of the harmonic mean
HarmonicMean_Sum(p, r, zero_division) ==
    Ratio(p[1] * r[2] + r[1] * p[2], p[2] * r[2], zero_division)

\* the harmonic mean 2pr/(p+r) of two rationals, zero_division where p+r = 0
HarmonicMean(p, r, zero_division) ==
    Ratio(2 * p[1] * r[1], p[1] * r[2] + r[1] * p[2], zero_division)

f1_score(yt, yp, zero_division) ==
    HarmonicMean(precision_score(yt, yp, zero_division),
                 recall_score(yt, yp, zero_division), zero_division)

\* the dict of lines 109-114 / 161-165 (without the key "anonymized")
Scores(yt, yp) ==
    [Precision |-> precision_score(yt, yp, ZeroDivision),
     Recall |-> recall_score(yt, yp, ZeroDivision),
     F1_score |-> f1_score(yt, yp, ZeroDivision)]

RECURSIVE ExpectedFrom(_, _, _, _)
ExpectedFrom(st, i, expected, actual) ==
    IF i > Len(expected) THEN st
    ELSE ExpectedFrom(ExpectedIter(st, i, expected, actual), i + 1, expected, actual)

RECURSIVE ActualFrom(_, _, _, _)
ActualFrom(st, i, expected, actual) ==
    IF i > Len(actual) THEN st
    ELSE ActualFrom(ActualIter(st, i, expected, actual), i + 1, expected, actual)

\* lines 100-107 as one function of the two token lists
LabelVectors(expected, actual) ==
    ActualFrom(ExpectedFrom(<<<<>>, <<>>>>, 1, expected, actual), 1, expected, actual)

\* lines 100-114 as one function of the two token lists
EvaluateOp(expected, actual) ==
    LET v == LabelVectors(expected, actual) IN Scores(v[1], v[2])

----------------------------------------------------------------------------
(* Inputs of the evaluation *)

\* every list of matches the three sources can collect on a text of length n,
\* in the order of lines 46-69
RECURSIVE CollectPatterns(_, _, _)
CollectPatterns(labels, i, n) ==
    IF i > Len(labels) THEN {<<>>}
    ELSE { Labelled(found, labels[i]) \o rest :
           found \in Finditer(0, n), rest \in CollectPatterns(labels, i + 1, n) }

Collected(n) ==
    { a \o b \o KeptEnts(ents) :
      a \in CollectPatterns(regex_patterns, 1, n),
      b \in CollectPatterns(us_driver_license_patterns, 1, n),
      ents \in DocEnts(0, n) }

\* every AnonymizationResult anonymize_text can return on the text raw
ResultsOf ==
    [raw \in Texts(Max(MaxRawLen, MaxCaseTextLen)) |->
        { AnonymizeOp(raw, ms) : ms \in Collected(Len(raw)) }]

\* the pieces a labeled text is made of: a placeholder, or a stray "["
LabeledItems ==
    { Placeholder(l) : l \in {"US_PASSPORT", "US_DRIVER_LICENSE", "PERSON"} }
    \cup { <<"[">> }

RECURSIVE LabeledTexts(_)
LabeledTexts(n) ==
    IF n = 0 THEN { <<>> }
    ELSE LabeledTexts(n - 1) \cup
         { item \o rest : item \in LabeledItems, rest \in LabeledTexts(n - 1) }

----------------------------------------------------------------------------
(* RegexAnonymizer.evaluate_anonymization *)

\* a caller invokes evaluate_anonymization(raw_text, labeled_text);
\* anonymized = self.anonymize_text(raw_text)                   regex.py 93-96
EvaluateCall ==
    /\ pc = "idle"
    /\ op' = "evaluate_anonymization"
    /\ \E raw \in Texts(MaxRawLen) :
          /\ text' = raw
          /\ \E r \in ResultsOf[raw] : result' = <<r>>
    /\ pc' = "findall"
    /\ UNCHANGED <<idx, given>>
    /\ UNCHANGED anonVars
    /\ UNCHANGED evalVars
    /\ UNCHANGED excVars
    /\ UNCHANGED guiVars

\* anonymized = self.anonymize_text(raw_text) raises            regex.py 96
EvaluateCallRaises ==
    /\ pc = "idle"
    /\ op' = "evaluate_anonymization"
    /\ text' = LongText
    /\ pc' = AfterRaise("findall")
    /\ error' = Raised("ValueError", "findall")
    /\ UNCHANGED <<idx, result, given, completed>>
    /\ UNCHANGED anonVars
    /\ UNCHANGED evalVars
    /\ UNCHANGED guiVars

\* the two re.findall calls; y_true, y_pred = [], []            regex.py 97-100
\* (labeled_text is an argument the method reads here for the first time:
\* the model draws it here)
EvaluateFindall ==
    /\ pc = "findall"
    /\ \E lt \in LabeledTexts(MaxLabeledItems) :
          /\ labeled_text' = lt
          /\ expected_entities' = FindAll(lt)
    /\ anonymized_entities' = FindAll(result[1].text)
    /\ y_true' = <<>> /\ y_pred' = <<>> /\ idx' = 1
    /\ pc' = "expected"
    /\ UNCHANGED <<text, op, result, metrics, case_no, given>>
    /\ UNCHANGED anonVars
    /\ UNCHANGED excVars
    /\ UNCHANGED guiVars

\* one iteration of the loop of                                 regex.py 101-103
EvaluateExpectedStep ==
    /\ op = "evaluate_anonymization" /\ pc = "expected"
    /\ idx <= Len(expected_entities)
    /\ LET st == ExpectedIter(<<y_true, y_pred>>, idx, expected_entities, anonymized_entities)
       IN  y_true' = st[1] /\ y_pred' = st[2]
    /\ idx' = idx + 1
    /\ UNCHANGED <<text, op, pc, result, labeled_text, expected_entities,
                   anonymized_entities, metrics, case_no, given>>
    /\ UNCHANGED anonVars
    /\ UNCHANGED excVars
    /\ UNCHANGED guiVars

\* the first loop is over, the second begins                    regex.py 104
EvaluateExpectedExit ==
    /\ op = "evaluate_anonymization" /\ pc = "expected"
    /\ idx > Len(expected_entities)
    /\ idx' = 1 /\ pc' = "actual"
    /\ UNCHANGED <<text, op, result, given>>
    /\ UNCHANGED anonVars
    /\ UNCHANGED evalVars
    /\ UNCHANGED excVars
    /\ UNCHANGED guiVars

\* one iteration of the loop of                                 regex.py 104-107
EvaluateActualStep ==
    /\ op = "evaluate_anonymization" /\ pc = "actual"
    /\ idx <= Len(anonymized_entities)
    /\ LET st == ActualIter(<<y_true, y_pred>>, idx, expected_entities, anonymized_entities)
       IN  y_true' = st[1] /\ y_pred' = st[2]
    /\ idx' = idx + 1
    /\ UNCHANGED <<text, op, pc, result, labeled_text, expected_entities,
                   anonymized_entities, metrics, case_no, given>>
    /\ UNCHANGED anonVars
    /\ UNCHANGED excVars
    /\ UNCHANGED guiVars

\* return {...}                                                 regex.py 109-114
EvaluateReturn ==
    /\ op = "evaluate_anonymization" /\ pc = "actual"
    /\ idx > Len(anonymized_entities)
    /\ metrics' = <<Scores(y_true, y_pred)>>
    /\ pc' = "returned"
    /\ UNCHANGED <<text, op, idx, result, labeled_text, expected_entities,
                   anonymized_entities, y_true, y_pred, case_no, given>>
    /\ UNCHANGED anonVars
    /\ UNCHANGED excVars
    /\ UNCHANGED guiVars

----------------------------------------------------------------------------
(* RegexAnonymizer.evaluate_test_cases *)

\* a caller invokes evaluate_test_cases(test_cases); y_true, y_pred = [], []
\*                                                              regex.py 146-147
\* (the pairs of test_cases are arguments the method reads one by one: the
\* model draws each pair when the loop reaches it)
TestCasesCall ==
    /\ pc = "idle"
    /\ op' = "evaluate_test_cases" /\ pc' = "case"
    /\ UNCHANGED <<text, idx, result, given>>
    /\ UNCHANGED anonVars
    /\ UNCHANGED evalVars
    /\ UNCHANGED excVars
    /\ UNCHANGED guiVars

\* the loop takes the next pair; anonymized = self.anonymize_text(raw)
\*                                                              regex.py 148-149
TestCaseAnonymize ==
    /\ op = "evaluate_test_cases" /\ pc = "case"
    /\ case_no < MaxCases
    /\ \E raw \in Texts(MaxCaseTextLen) :
          /\ text' = raw
          /\ \E r \in ResultsOf[raw] : result' = <<r>>
    /\ case_no' = case_no + 1
    /\ pc' = "case_findall"
    \* the token lists of the pair before are dead from here on
    /\ labeled_text' = <<>> /\ expected_entities' = <<>> /\ anonymized_entities' = <<>>
    /\ UNCHANGED <<op, idx, y_true, y_pred, metrics, given>>
    /\ UNCHANGED anonVars
    /\ UNCHANGED excVars
    /\ UNCHANGED guiVars

\* the loop takes the next pair; self.anonymize_text(raw) raises
\*                                                              regex.py 148-149
TestCaseAnonymizeRaises ==
    /\ op = "evaluate_test_cases" /\ pc = "case"
    /\ case_no < MaxCases
    /\ text' = LongText
    /\ case_no' = case_no + 1
    /\ pc' = AfterRaise("case_findall")
    /\ error' = Raised("ValueError", "case_findall")
    \* this call of anonymize_text returned nothing
    /\ result' = <<>>
    /\ UNCHANGED <<op, idx, labeled_text, expected_entities,
                   anonymized_entities, y_true, y_pred, metrics, given, completed>>
    /\ UNCHANGED anonVars
    /\ UNCHANGED guiVars

\* the two re.findall calls and the two loops, for this pair   regex.py 150-159
TestCaseScore ==
    /\ op = "evaluate_test_cases" /\ pc = "case_findall"
    /\ \E expected \in LabeledTexts(MaxCaseItems) :
          /\ labeled_text' = expected
          /\ expected_entities' = FindAll(expected)
    /\ anonymized_entities' = FindAll(result[1].text)
    /\ LET st == ActualFrom(ExpectedFrom(<<y_true, y_pred>>, 1,
                                         expected_entities', anonymized_entities'),
                            1, expected_entities', anonymized_entities')
       IN  y_true' = st[1] /\ y_pred' = st[2]
    /\ pc' = "case"
    /\ UNCHANGED <<text, op, idx, result, metrics, case_no, given>>
    /\ UNCHANGED anonVars
    /\ UNCHANGED excVars
    /\ UNCHANGED guiVars

\* test_cases is exhausted; return {...}                        regex.py 161-165
TestCasesReturn ==
    /\ op = "evaluate_test_cases" /\ pc = "case"
    /\ metrics' = <<Scores(y_true, y_pred)>>
    /\ pc' = "returned"
    /\ UNCHANGED <<text, op, idx, result, labeled_text, expected_entities,
                   anonymized_entities, y_true, y_pred, case_no, given>>
    /\ UNCHANGED anonVars
    /\ UNCHANGED excVars
    /\ UNCHANGED guiVars

----------------------------------------------------------------------------
(* The action handlers of AnonymizerGUI (gui/app.py 215-270), the Regex + NLP
   anonymizer selected; the engine call of a handler is one step *)

GuiHandlers ==
    {"_anonymize_with_loading", "_evaluate_with_loading", "_run_test_cases_with_loading"}

Whitespace == {" ", "\n"}

\* str.strip()
RECURSIVE LStrip(_)
LStrip(s) == IF s # <<>> /\ Head(s) \in Whitespace THEN LStrip(Tail(s)) ELSE s

RECURSIVE RStrip(_)
RStrip(s) ==
    IF s # <<>> /\ s[Len(s)] \in Whitespace THEN RStrip(SubSeq(s, 1, Len(s) - 1)) ELSE s

Strip(s) == RStrip(LStrip(s))

\* what box.get("1.0", tk.END) can give: the text typed, a newline behind it
BoxContents(typed) == { lead \o t \o <<"\n">> : lead \in {<<>>, <<" ">>}, t \in typed }

\* the contents of the box(es) a handler reads
RawBox(h) ==
    IF h = "_run_test_cases_with_loading" THEN {<<>>}
    ELSE BoxContents(PlainTexts(MaxCaseTextLen) \cup {LongText})

LabeledBox(h) ==
    IF h = "_evaluate_with_loading" THEN BoxContents(LabeledTexts(MaxCaseItems))
    ELSE {<<>>}

\* the test  if not text / if not raw or not labeled
InputMissing(h, t, l) ==
    CASE h = "_anonymize_with_loading" -> t = <<>>
      [] h = "_evaluate_with_loading" -> t = <<>> \/ l = <<>>
      [] h = "_run_test_cases_with_loading" -> FALSE

MessageBox(kind, about) == [kind |-> kind, about |-> about]

\* a _set_loading_state that disables the buttons whatever it is told
LoadingState_Disabled(is_loading) == "disabled"

\* self._set_loading_state(is_loading), the state of the three buttons
LoadingState(is_loading) == IF is_loading THEN "disabled" ELSE "normal"

\* self._set_loading_state(is_loading), the cursor of the root window
LoadingCursor(is_loading) == IF is_loading THEN "wait" ELSE ""

\* the keys of self.anonymizers, in order
Anonymizers == <<"Regex + NLP", "Presidio">>

\* the GUI after AnonymizerGUI(): the buttons as created, the default cursor,
\* the first anonymizer selected by the call of _on_anonymizer_change
GuiInit ==
    /\ buttons = "normal" /\ dialog = <<>> /\ cursor = ""
    /\ current_anonymizer = Anonymizers[1]
    /\ pending = <<>> /\ stack = <<>> /\ calling = <<>> /\ inputs = 0

\* the user clicks the button of handler h; the handler reads its boxes,
\* warns and returns, or sets the loading state   app.py 217-222, 234-240, 251
GuiClick(h) ==
    /\ pc = "idle" /\ buttons = "normal"
    /\ op' = h
    /\ \E raw \in RawBox(h), lab \in LabeledBox(h) :
          /\ text' = Strip(raw) /\ labeled_text' = Strip(lab)
          /\ IF InputMissing(h, text', labeled_text')
                THEN /\ dialog' = <<MessageBox("showwarning", "input")>>
                     /\ buttons' = buttons /\ cursor' = cursor
                     /\ pc' = "returned"
                ELSE /\ dialog' = <<>>
                     /\ buttons' = LoadingState(TRUE)
                     /\ cursor' = LoadingCursor(TRUE)
                     /\ pc' = "call"
    /\ UNCHANGED <<idx, result, expected_entities, anonymized_entities, y_true,
                   y_pred, metrics, case_no, given>>
    /\ UNCHANGED anonVars
    /\ UNCHANGED excVars
    /\ UNCHANGED eventVars

\* the engine call inside the try raises            app.py 224, 242, 253-254
GuiCallRaises ==
    /\ op \in GuiHandlers /\ pc = "call"
    /\ op # "_run_test_cases_with_loading" /\ NlpRaises(text)
    /\ error' = <<"ValueError">>
    /\ pc' = "except"
    /\ UNCHANGED <<text, op, idx, result, given, completed>>
    /\ UNCHANGED anonVars
    /\ UNCHANGED evalVars
    /\ UNCHANGED guiVars

\* the engine call returns and the handler shows what it returned
\*                                                  app.py 224-226, 242-243, 253-255
\* (of the five generated test cases the model keeps one)
GuiCallReturns ==
    /\ op \in GuiHandlers /\ pc = "call"
    /\ CASE op = "_anonymize_with_loading" ->
               /\ ~ NlpRaises(text)
               /\ \E r \in ResultsOf[text] : result' = <<r>>
               /\ metrics' = metrics /\ text' = text
          [] op = "_evaluate_with_loading" ->
               /\ ~ NlpRaises(text)
               /\ \E r \in ResultsOf[text] :
                     /\ result' = <<r>>
                     /\ metrics' = <<EvaluateOp(FindAll(labeled_text), FindAll(r.text))>>
               /\ text' = text
          [] op = "_run_test_cases_with_loading" ->
               \E raw \in Texts(MaxCaseTextLen), expected \in LabeledTexts(MaxCaseItems) :
                  \E r \in ResultsOf[raw] :
                     /\ text' = raw
                     /\ result' = <<r>>
                     /\ metrics' = <<EvaluateOp(FindAll(expected), FindAll(r.text))>>
    /\ pc' = "finally"
    /\ UNCHANGED <<op, idx, labeled_text, expected_entities, anonymized_entities,
                   y_true, y_pred, case_no, given>>
    /\ UNCHANGED anonVars
    /\ UNCHANGED excVars
    /\ UNCHANGED guiVars

\* except Exception as e: messagebox.showerror(...)  app.py 227-228, 244-245, 256-257
GuiExcept ==
    /\ op \in GuiHandlers /\ pc = "except"
    /\ dialog' = <<MessageBox("showerror", error[1])>>
    /\ error' = <<>>
    /\ pc' = "finally"
    /\ UNCHANGED <<text, op, idx, result, given, completed, buttons, cursor>>
    /\ UNCHANGED anonVars
    /\ UNCHANGED evalVars
    /\ UNCHANGED eventVars

\* finally: self._set_loading_state(False)           app.py 229-230, 246-247, 258-259
GuiFinally ==
    /\ op \in GuiHandlers /\ pc = "finally"
    /\ buttons' = LoadingState(FALSE)
    /\ cursor' = LoadingCursor(FALSE)
    /\ pc' = "returned"
    /\ UNCHANGED <<text, op, idx, result, given, dialog>>
    /\ UNCHANGED anonVars
    /\ UNCHANGED evalVars
    /\ UNCHANGED excVars
    /\ UNCHANGED eventVars

----------------------------------------------------------------------------
(* The program *)

Init ==
    /\ text = <<>>
    /\ op = "none" /\ pc = "idle" /\ idx = 1
    /\ matches = <<>> /\ filtered = <<>> /\ current_end = 0
    /\ anonymized_text = <<>> /\ last_index = 0 /\ origin = <<>>
    /\ result = <<>>
    /\ NoEval
    /\ given = <<>>
    /\ error = <<>> /\ completed = {}
    /\ GuiInit

\* the caller is done with the value returned; the frame of the call is gone
Release ==
    /\ pc \in {"returned", "raised"}
    /\ op' = "none" /\ pc' = "idle" /\ idx' = 1
    /\ text' = <<>>
    /\ ResetAnon /\ ResetEval
    /\ result' = <<>>
    /\ UNCHANGED given
    /\ error' = <<>> /\ completed' = {}
    /\ dialog' = <<>>
    /\ UNCHANGED <<buttons, cursor>>
    /\ UNCHANGED eventVars

Next ==
    \/ AnonymizeCall \/ CollectRegex \/ CollectDriverLicense \/ CollectNlp
    \/ CollectNlpRaises
    \/ SortStep \/ FilterStep \/ FilterExit \/ ReconstructStep \/ AnonymizeReturn
    \/ EvaluateCall \/ EvaluateFindall \/ EvaluateExpectedStep \/ EvaluateExpectedExit
    \/ EvaluateActualStep \/ EvaluateReturn
    \/ EvaluateCallRaises
    \/ TestCasesCall \/ TestCaseAnonymize \/ TestCaseAnonymizeRaises
    \/ TestCaseScore \/ TestCasesReturn
    \/ (\E h \in GuiHandlers : GuiClick(h))
    \/ GuiCallRaises \/ GuiCallReturns \/ GuiExcept \/ GuiFinally
    \/ Release

Spec == Init /\ [][Next]_vars

----------------------------------------------------------------------------
(* The bare sort-and-sweep, on a candidate list in any order *)

ResolverLabels == {"US_PASSPORT", "US_DRIVER_LICENSE"}

\* every well-formed span of a text of length n
WellFormedSpans(n) ==
    { Span(q[1], q[2], q[3]) :
      q \in { r \in (0..(n - 1)) \X (1..n) \X ResolverLabels : r[1] < r[2] } }

RECURSIVE CandidateLists(_, _)
CandidateLists(k, n) ==
    IF k = 0 THEN { <<>> }
    ELSE CandidateLists(k - 1, n) \cup
         { <<c>> \o rest : c \in WellFormedSpans(n), rest \in CandidateLists(k - 1, n) }

\* lines 71-91 run on a list matches that holds the candidates in the order
\* given
InitResolver ==
    /\ text = TextOfLen(MaxOffset)
    /\ given \in CandidateLists(MaxCands, MaxOffset)
    /\ matches = given
    /\ op = "anonymize_text" /\ pc = "sort" /\ idx = 1
    /\ filtered = <<>> /\ current_end = 0
    /\ anonymized_text = <<>> /\ last_index = 0 /\ origin = <<>>
    /\ result = <<>>
    /\ NoEval
    /\ error = <<>> /\ completed = {}
    /\ GuiInit

NextResolver ==
    \/ SortStep \/ FilterStep \/ FilterExit \/ ReconstructStep \/ AnonymizeReturn

SpecResolver == InitResolver /\ [][NextResolver]_vars

----------------------------------------------------------------------------
(* The sort-and-sweep on candidates of a source that breaks its contract *)

MaxGuardCands == 2       \* longest candidate list of this kind

\* every span a source could hand over on a text of length n if nothing held
\* it to the text: offsets from -1 to n + 1, start and end in any relation
AnySpans(n) ==
    { Span(q[1], q[2], "US_PASSPORT") : q \in ((0 - 1)..(n + 1)) \X ((0 - 1)..(n + 1)) }

RECURSIVE AnyLists(_, _)
AnyLists(k, n) ==
    IF k = 0 THEN { <<>> }
    ELSE AnyLists(k - 1, n) \cup
         { <<c>> \o rest : c \in AnySpans(n), rest \in AnyLists(k - 1, n) }

\* lines 71-91 run on such a list
InitGuard ==
    /\ text = TextOfLen(MaxOffset)
    /\ given \in AnyLists(MaxGuardCands, MaxOffset)
    /\ matches = given
    /\ op = "anonymize_text" /\ pc = "sort" /\ idx = 1
    /\ filtered = <<>> /\ current_end = 0
    /\ anonymized_text = <<>> /\ last_index = 0 /\ origin = <<>>
    /\ result = <<>>
    /\ NoEval
    /\ error = <<>> /\ completed = {}
    /\ GuiInit

SpecGuard == InitGuard /\ [][NextResolver]_vars

----------------------------------------------------------------------------
(* PresidioAnonymizer.anonymize_text (presidio.py 58-71). The two Presidio
   engines are black boxes known by their documented contract: the analyzer
   yields well-formed results that may overlap, in no particular order; the
   anonymizer drops a result contained in another one, keeps one of several
   results on the same range, replaces what it keeps by <TYPE> and
   concatenates the replacements of results that intersect partly. *)

SameRange(a, b) == a.start = b.start /\ a.end = b.end

Contains(b, a) == b.start <= a.start /\ a.end <= b.end /\ ~ SameRange(a, b)

\* what self.analyzer.analyze can return on a text of length n: the analyzer
\* removes, among results of one entity type, those equal to or contained in
\* another; results of different types may overlap
AnalyzerResults(k, n) ==
    { l \in CandidateLists(k, n) :
        \A i \in 1..Len(l) : \A j \in 1..Len(l) :
           (i # j /\ l[i].label = l[j].label) =>
              ~ (SameRange(l[i], l[j]) \/ Contains(l[j], l[i])) }

\* the sets of positions of results the anonymizer may keep
PresidioKept(results) ==
    { S \in SUBSET (1..Len(results)) :
        /\ \A i \in S : \A j \in 1..Len(results) : ~ Contains(results[j], results[i])
        /\ \A i \in S : \A k \in S : SameRange(results[i], results[k]) => i = k
        /\ \A i \in (1..Len(results)) \ S :
              \/ \E j \in 1..Len(results) : Contains(results[j], results[i])
              \/ \E k \in S : SameRange(results[i], results[k]) }

\* the results at the positions S, in the order of the list
RECURSIVE Pick(_, _, _)
Pick(results, S, i) ==
    IF i > Len(results) THEN <<>>
    ELSE (IF i \in S THEN <<results[i]>> ELSE <<>>) \o Pick(results, S, i + 1)

\* the default operator of the anonymizer: <ENTITY_TYPE>
PresidioPlaceholder(label) == <<"<">> \o LabelChars(label) \o <<">">>

RECURSIVE PresidioReplace(_, _, _, _)
PresidioReplace(t, kept, i, last) ==
    IF i > Len(kept) THEN Slice(t, last, Len(t))
    ELSE Slice(t, last, kept[i].start) \o PresidioPlaceholder(kept[i].label)
         \o PresidioReplace(t, kept, i + 1, Max(last, kept[i].end))

\* every text self.anonymizer.anonymize(text, analyzer_results) may return
PresidioTexts(t, results) ==
    { PresidioReplace(t, SortMatches(Pick(results, S, 1)), 1, 0) :
      S \in PresidioKept(results) }

\* results = self.analyzer.analyze(text=text, language="en") has returned
\*                                                            presidio.py 58-59
InitPresidio ==
    /\ text = TextOfLen(MaxOffset)
    /\ given \in AnalyzerResults(MaxCands, MaxOffset)
    /\ matches = given
    /\ op = "PresidioAnonymizer.anonymize_text" /\ pc = "anonymize" /\ idx = 1
    /\ filtered = <<>> /\ current_end = 0
    /\ anonymized_text = <<>> /\ last_index = 0 /\ origin = <<>>
    /\ result = <<>>
    /\ NoEval
    /\ error = <<>> /\ completed = {}
    /\ GuiInit

\* anonymized_result = self.anonymizer.anonymize(...); entities = []
\*                                                            presidio.py 60-65
PresidioAnonymize ==
    /\ op = "PresidioAnonymizer.anonymize_text" /\ pc = "anonymize"
    /\ anonymized_text' \in PresidioTexts(text, matches)
    /\ filtered' = <<>> /\ idx' = 1
    /\ pc' = "convert"
    /\ UNCHANGED <<text, op, matches, current_end, last_index, origin, result, given>>
    /\ UNCHANGED evalVars
    /\ UNCHANGED excVars
    /\ UNCHANGED guiVars

\* one iteration of the loop over results                   presidio.py 66-69
PresidioConvertStep ==
    /\ op = "PresidioAnonymizer.anonymize_text" /\ pc = "convert"
    /\ idx <= Len(matches)
    /\ filtered' = Append(filtered,
                          Span(matches[idx].start, matches[idx].end, matches[idx].label))
    /\ idx' = idx + 1
    /\ UNCHANGED <<text, op, pc, matches, current_end, anonymized_text, last_index,
                   origin, result, given>>
    /\ UNCHANGED evalVars
    /\ UNCHANGED excVars
    /\ UNCHANGED guiVars

\* return AnonymizationResult(text=..., entities=entities)    presidio.py 71
PresidioReturn ==
    /\ op = "PresidioAnonymizer.anonymize_text" /\ pc = "convert"
    /\ idx > Len(matches)
    /\ result' = <<[text |-> anonymized_text, entities |-> filtered]>>
    /\ pc' = "returned"
    /\ UNCHANGED <<text, op, idx, given>>
    /\ UNCHANGED anonVars
    /\ UNCHANGED evalVars
    /\ UNCHANGED excVars
    /\ UNCHANGED guiVars

NextPresidio == PresidioAnonymize \/ PresidioConvertStep \/ PresidioReturn

SpecPresidio == InitPresidio /\ [][NextPresidio]_vars

----------------------------------------------------------------------------
(* The sort-and-sweep and the reconstruction on the text of the worked
   example of the specification *)

MaxScenarioCands == 3    \* longest candidate list on that text

\* "Call 555-123-4567 or email a@b.com"
ScenarioText ==
    <<"C", "a", "l", "l", " ", "5", "5", "5", "-", "1", "2", "3",
      "-", "4", "5", "6", "7", " ", "o", "r", " ", "e", "m", "a",
      "i", "l", " ", "a", "@", "b", ".", "c", "o", "m">>

\* what the PHONE and the EMAIL pattern of lines 20-23 match on that text
PhoneSpan == Span(5, 17, "PHONE")
EmailSpan == Span(27, 34, "EMAIL")

\* the e-mail span as the worked example gives it
EmailSpanAsGiven == Span(21, 28, "EMAIL")

RECURSIVE ListsOver(_, _)
ListsOver(spans, k) ==
    IF k = 0 THEN { <<>> }
    ELSE ListsOver(spans, k - 1) \cup
         { <<c>> \o rest : c \in spans, rest \in ListsOver(spans, k - 1) }

InitScenario ==
    /\ text = ScenarioText
    /\ given \in ListsOver({PhoneSpan, EmailSpan, EmailSpanAsGiven}, MaxScenarioCands)
    /\ matches = given
    /\ op = "anonymize_text" /\ pc = "sort" /\ idx = 1
    /\ filtered = <<>> /\ current_end = 0
    /\ anonymized_text = <<>> /\ last_index = 0 /\ origin = <<>>
    /\ result = <<>>
    /\ NoEval
    /\ error = <<>> /\ completed = {}
    /\ GuiInit

SpecScenario == InitScenario /\ [][NextResolver]_vars

----------------------------------------------------------------------------
(* Vocabulary of the properties *)

Elems(list) == { list[i] : i \in 1..Len(list) }

Count(list, x) == Cardinality({ i \in 1..Len(list) : list[i] = x })

SameMultiset(a, b) == \A x \in Elems(a) \cup Elems(b) : Count(a, x) = Count(b, x)

\* every reordering of a list
Reorderings(list) ==
    { [i \in 1..Len(list) |-> list[f[i]]] : f \in Permutations(1..Len(list)) }

RECURSIVE Sum(_, _)
Sum(f, i) == IF i > Len(f) THEN 0 ELSE f[i] + Sum(f, i + 1)

AdjacentDisjoint(spans) ==
    \A i \in 1..(Len(spans) - 1) : spans[i].end <= spans[i + 1].start

Ranges(spans) == [i \in 1..Len(spans) |-> <<spans[i].start, spans[i].end>>]

AnonymizeReturned == op = "anonymize_text" /\ pc = "returned"
EvaluateReturned == op = "evaluate_anonymization" /\ pc = "returned"
TestCasesReturned == op = "evaluate_test_cases" /\ pc = "returned"

One == <<1, 1>>
Zero == <<0, 1>>

----------------------------------------------------------------------------
(* Properties of the Span Resolver and the Substitution Engine *)

\* C1: non-overlap. In every state of anonymize_text the accepted spans, and
\* the entities of every result returned, satisfy
\* spans[i].end <= spans[i+1].start for all adjacent i.
C1_NonOverlap ==
    /\ AdjacentDisjoint(filtered)
    /\ result # <<>> => AdjacentDisjoint(result[1].entities)

\* a call that accepted at least two spans and rejected an overlapping one
C1_Witness ==
    /\ AnonymizeReturned
    /\ Len(filtered) >= 2 /\ Len(matches) > Len(filtered)
    /\ \E i \in 1..Len(matches) : \E k \in 1..Len(filtered) :
          /\ matches[i] \notin Elems(filtered)
          /\ matches[i].start < filtered[k].end /\ filtered[k].start < matches[i].end

\* C2: longest-at-tie. Of two candidates with the same start and different
\* ends the shorter one is never accepted; an accepted span has the largest
\* end among the candidates of its start; no placeholder of the output comes
\* from the shorter one.
C2_LongestAtTie ==
    /\ \A a \in Elems(matches) : \A b \in Elems(matches) :
          (a.start = b.start /\ a.end < b.end) =>
             /\ a \notin Elems(filtered)
             /\ \A j \in 1..Len(origin) : origin[j] < 0 => filtered[0 - origin[j]] # a
    /\ \A f \in Elems(filtered) : \A m \in Elems(matches) :
          m.start = f.start => m.end <= f.end

\* a returned call where a longer and a shorter candidate started together
\* and the longer one, of another label, was accepted
C2_Witness ==
    /\ AnonymizeReturned
    /\ \E a \in Elems(matches) : \E b \in Elems(filtered) :
          a.start = b.start /\ a.end < b.end /\ a.label # b.label

\* the string the claim gives:
\* text[0:s1] + "[" + l1 + "]" + text[e1:s2] + ... + "[" + ln + "]" + text[en:]
KeptPiece(t, spans, i) ==
    SubSeq(t, (IF i = 1 THEN 0 ELSE spans[i - 1].end) + 1,
              IF i > Len(spans) THEN Len(t) ELSE spans[i].start)

RECURSIVE Pieces(_, _, _)
Pieces(t, spans, i) ==
    IF i > Len(spans) THEN KeptPiece(t, spans, i)
    ELSE KeptPiece(t, spans, i) \o <<"[">> \o LabelChars(spans[i].label) \o <<"]">>
         \o Pieces(t, spans, i + 1)

\* C3: substitution accounts for every input character exactly once. The text
\* returned is text[0:s1] + "[l1]" + text[e1:s2] + ... + "[ln]" + text[en:];
\* every offset of the input is either copied once, verbatim and in order, or
\* lies inside exactly one replaced span, never both.
C3_ExactlyOnce ==
    /\ result # <<>> => result[1].text = Pieces(text, result[1].entities, 1)
    /\ AnonymizeReturned =>
          /\ Len(origin) = Len(anonymized_text)
          /\ \A o \in 0..(Len(text) - 1) :
                LET copies == { j \in 1..Len(origin) : origin[j] = o }
                    covers == { k \in 1..Len(filtered) :
                                filtered[k].start <= o /\ o < filtered[k].end }
                IN  \/ Cardinality(copies) = 1 /\ covers = {}
                    \/ copies = {} /\ Cardinality(covers) = 1
          /\ \A j \in 1..Len(origin) :
                origin[j] >= 0 =>
                   /\ anonymized_text[j] = text[origin[j] + 1]
                   /\ \A k \in 1..(j - 1) : origin[k] >= 0 => origin[k] < origin[j]

\* a returned call that replaced two spans and copied the character between
C3_Witness ==
    /\ AnonymizeReturned
    /\ Len(filtered) = 2 /\ filtered[1].end < filtered[2].start
    /\ Len(matches) > 2

SpanChars(spans) == [i \in 1..Len(spans) |-> spans[i].end - spans[i].start]
PlaceholderChars(spans) == [i \in 1..Len(spans) |-> Len(LabelChars(spans[i].label)) + 2]

\* C4: coverage conservation. The text returned has length
\* len(original) - sum(end - start) + sum(len(label) + 2) over the resolved spans.
C4_CoverageConservation ==
    result # <<>> =>
       Len(result[1].text) =
          Len(text) - Sum(SpanChars(result[1].entities), 1)
                    + Sum(PlaceholderChars(result[1].entities), 1)

\* a returned call that replaced the whole text by three placeholders
C4_Witness ==
    /\ AnonymizeReturned
    /\ Len(result[1].entities) = 3
    /\ Sum(SpanChars(result[1].entities), 1) = Len(text)

Swept == pc \in {"reconstruct", "returned"}

NoRangeTie(list) ==
    \A a \in Elems(list) : \A b \in Elems(list) :
       (a.start = b.start /\ a.end = b.end) => a.label = b.label

\* C5 as stated: the Resolved set is a function of the candidate collection
\* alone; whatever the order the candidates were contributed in, the sort and
\* sweep yields the same Resolved set, labels included.
C5_OrderIndependent ==
    Swept => \A p \in Reorderings(given) : Resolve(p) = filtered

\* C5, amended: whatever the order the candidates were contributed in, the
\* sort and sweep yields the same ranges (start, end) in the same order, and
\* the same labels too unless two candidates share start and end under
\* different labels.
C5_RangesOrderIndependent ==
    Swept => \A p \in Reorderings(given) :
                /\ Ranges(Resolve(p)) = Ranges(filtered)
                /\ NoRangeTie(given) => Resolve(p) = filtered

\* a swept list of three candidates, handed over unsorted, two of them on
\* the same range under different labels, of which two spans were accepted
C5_Witness ==
    /\ Swept
    /\ Len(given) = 3 /\ SortMatches(given) # given
    /\ ~ NoRangeTie(given)
    /\ Len(filtered) = 2

----------------------------------------------------------------------------
(* Properties of the Evaluation Engine *)

AllOne(m) == m.Precision = One /\ m.Recall = One /\ m.F1_score = One
AllZero(m) == m.Precision = Zero /\ m.Recall = Zero /\ m.F1_score = Zero

\* C6 as stated: whenever the tokens of the anonymized output are the same
\* multiset as the tokens of the labeled reference, Precision = Recall = F1 = 1.
C6_PerfectMatch ==
    (EvaluateReturned /\ SameMultiset(expected_entities, anonymized_entities))
       => AllOne(metrics[1])

\* C6, amended: whenever the two token lists are the same multiset and it is
\* not empty, Precision = Recall = F1 = 1.
C6_PerfectMatchNonEmpty ==
    (/\ EvaluateReturned
     /\ SameMultiset(expected_entities, anonymized_entities)
     /\ expected_entities # <<>>)
       => AllOne(metrics[1])

\* an evaluation of two different tokens that the reference lists in the
\* other order
C6_Witness ==
    /\ EvaluateReturned
    /\ Len(expected_entities) = 2 /\ expected_entities[1] # expected_entities[2]
    /\ anonymized_entities = <<expected_entities[2], expected_entities[1]>>

IsRatio(q) == q[1] \in Nat /\ q[2] \in Nat \ {0}

\* C7: zero denominators are values. Precision is 0 when TP+FP = 0, Recall is
\* 0 when TP+FN = 0, F1 is 0 when there is no true positive; with no expected
\* and no actual token all three are 0; every metric returned is a number.
C7_ZeroDenominators ==
    (pc = "returned" /\ op \in {"evaluate_anonymization", "evaluate_test_cases"}) =>
       LET tp == TruePositives(y_true, y_pred)
           fp == FalsePositives(y_true, y_pred)
           fn == FalseNegatives(y_true, y_pred)
           m == metrics[1]
       IN  /\ metrics # <<>>
           /\ IsRatio(m.Precision) /\ IsRatio(m.Recall) /\ IsRatio(m.F1_score)
           /\ tp + fp = 0 => m.Precision = Zero
           /\ tp + fn = 0 => m.Recall = Zero
           /\ tp = 0 => m.F1_score = Zero
           /\ (op = "evaluate_anonymization" /\ expected_entities = <<>>
               /\ anonymized_entities = <<>>) => AllZero(m)

\* an evaluation with no expected and no actual token
C7_Witness ==
    /\ EvaluateReturned
    /\ expected_entities = <<>> /\ anonymized_entities = <<>>
    /\ metrics # <<>>

Occurs(x, list) == x \in Elems(list)

HitCount(expected, actual) ==
    Cardinality({ i \in 1..Len(expected) : Occurs(expected[i], actual) })
MissCount(expected, actual) ==
    Cardinality({ i \in 1..Len(expected) : ~ Occurs(expected[i], actual) })
SpuriousCount(expected, actual) ==
    Cardinality({ i \in 1..Len(actual) : ~ Occurs(actual[i], expected) })

\* C8: metric counts. TP is the number of occurrences in expected whose value
\* occurs in actual, FN the number of those whose value does not, FP the
\* number of occurrences in actual whose value occurs nowhere in expected;
\* there is no true negative; Precision = TP/(TP+FP), Recall = TP/(TP+FN),
\* F1 = 2TP/(2TP+FP+FN) wherever the denominator is not 0.
C8_MetricCounts ==
    EvaluateReturned =>
       LET tp == HitCount(expected_entities, anonymized_entities)
           fn == MissCount(expected_entities, anonymized_entities)
           fp == SpuriousCount(expected_entities, anonymized_entities)
           m == metrics[1]
       IN  /\ TruePositives(y_true, y_pred) = tp
           /\ FalseNegatives(y_true, y_pred) = fn
           /\ FalsePositives(y_true, y_pred) = fp
           /\ Len(y_true) = tp + fn + fp /\ Len(y_pred) = Len(y_true)
           /\ tp + fp > 0 => m.Precision[1] * (tp + fp) = tp * m.Precision[2]
           /\ tp + fn > 0 => m.Recall[1] * (tp + fn) = tp * m.Recall[2]
           /\ 2 * tp + fp + fn > 0 =>
                 m.F1_score[1] * (2 * tp + fp + fn) = 2 * tp * m.F1_score[2]

\* an evaluation with a true positive, a false negative and a false positive
C8_Witness ==
    /\ EvaluateReturned
    /\ HitCount(expected_entities, anonymized_entities) >= 1
    /\ MissCount(expected_entities, anonymized_entities) >= 1
    /\ SpuriousCount(expected_entities, anonymized_entities) >= 1

\* C9: position-insensitive scoring. Reordering the expected tokens, or the
\* actual tokens, never changes Precision, Recall or F1.
C9_PositionInsensitive ==
    EvaluateReturned =>
       \A pe \in Reorderings(expected_entities) :
          \A pa \in Reorderings(anonymized_entities) :
             EvaluateOp(pe, pa) = metrics[1]

\* an evaluation where an expected token occurs in actual, at another position
\* only
C9_Witness ==
    /\ EvaluateReturned
    /\ Len(expected_entities) >= 2 /\ Len(anonymized_entities) >= 2
    /\ \E i \in 1..Len(expected_entities) :
          /\ Occurs(expected_entities[i], anonymized_entities)
          /\ i <= Len(anonymized_entities)
          /\ anonymized_entities[i] # expected_entities[i]

InUnitInterval(q) == IsRatio(q) /\ 0 <= q[1] /\ q[1] <= q[2]

\* C10: every Precision, Recall and F1 returned by evaluate_anonymization and
\* by evaluate_test_cases lies in [0, 1].
C10_UnitInterval ==
    metrics # <<>> =>
       /\ InUnitInterval(metrics[1].Precision)
       /\ InUnitInterval(metrics[1].Recall)
       /\ InUnitInterval(metrics[1].F1_score)

\* a run of evaluate_test_cases over two cases whose pooled metrics are
\* strictly between 0 and 1
C10_Witness ==
    /\ TestCasesReturned /\ case_no = 2
    /\ metrics[1].Precision \notin {Zero, One}
    /\ metrics[1].Recall \notin {Zero, One}
    /\ metrics[1].F1_score \notin {Zero, One}

----------------------------------------------------------------------------
(* Properties of edge cases and failures *)

AllSources ==
    Elems(regex_patterns) \cup Elems(us_driver_license_patterns) \cup {"nlp"}

EmptyResult == [text |-> <<>>, entities |-> <<>>]

\* C11: empty input. anonymize_text on the empty string collects no
\* candidate, raises no error, and returns a text equal to the input and an
\* empty entities list.
C11_EmptyInput ==
    /\ (op = "anonymize_text" /\ text = <<>>) =>
          /\ matches = <<>>
          /\ pc # "raised" /\ error = <<>>
          /\ pc = "returned" => result = <<EmptyResult>>
    /\ (op = "evaluate_anonymization" /\ text = <<>> /\ result # <<>>) =>
          result = <<EmptyResult>>

\* a call on the empty string that queried every source and returned
C11_Witness ==
    /\ AnonymizeReturned /\ text = <<>>
    /\ completed = AllSources
    /\ result # <<>>

WellFormed(m, n) == 0 <= m.start /\ m.start < m.end /\ m.end <= n

RECURSIVE KeepWellFormed(_, _)
KeepWellFormed(list, n) ==
    IF list = <<>> THEN <<>>
    ELSE (IF WellFormed(Head(list), n) THEN <<Head(list)>> ELSE <<>>)
         \o KeepWellFormed(Tail(list), n)

C14_SourceFailureIsolated ==
    (op = "anonymize_text" /\ pc = "raised") => completed = {}

EngineOps == {"anonymize_text", "evaluate_anonymization", "evaluate_test_cases"}

\* the positions of anonymize_text before the statement that can raise
BeforeNlp == {"regex", "dl", "nlp"}

----------------------------------------------------------------------------
(* Further properties of the Span Resolver *)

StrictlyIncreasingStart(spans) ==
    \A i \in 1..(Len(spans) - 1) : spans[i].start < spans[i + 1].start

\* C16: the Resolved set is strictly increasing in start. Whatever the
\* candidates, any two adjacent accepted spans satisfy
\* spans[i].start < spans[i+1].start, during the sweep and in the result.
C16_StrictlyIncreasingStart ==
    /\ StrictlyIncreasingStart(filtered)
    /\ result # <<>> => StrictlyIncreasingStart(result[1].entities)

\* a returned call that accepted two spans and rejected a candidate that
\* starts where an accepted one starts
C16_Witness ==
    /\ AnonymizeReturned
    /\ Len(result[1].entities) = 2
    /\ \E i \in 1..Len(matches) : \E k \in 1..Len(filtered) :
          /\ matches[i].start = filtered[k].start
          /\ matches[i] # filtered[k]

\* the number of placeholders open label close in a text without other
\* occurrences of the two delimiters
PlaceholderCount(s, open) == Cardinality({ i \in 1..Len(s) : s[i] = open })

OpenDelimiter == IF op = "PresidioAnonymizer.anonymize_text" THEN "<" ELSE "["

\* C17: for RegexAnonymizer and for PresidioAnonymizer the entities of the
\* AnonymizationResult returned are the Resolved set that was substituted to
\* produce its text: pairwise non-overlapping, ordered by start, one entity
\* per placeholder of the text, each an unmodified candidate span.
C17_EntitiesAreResolved ==
    result # <<>> =>
       LET e == result[1].entities
       IN  /\ AdjacentDisjoint(e)
           /\ \A i \in 1..(Len(e) - 1) : e[i].start <= e[i + 1].start
           /\ PlaceholderCount(result[1].text, OpenDelimiter) = Len(e)
           /\ \A i \in 1..Len(e) : e[i] \in Elems(matches)

\* "Call [PHONE] or email [EMAIL]"
ScenarioOutput ==
    <<"C", "a", "l", "l", " ", "[", "P", "H", "O", "N", "E", "]",
      " ", "o", "r", " ", "e", "m", "a", "i", "l", " ", "[", "E",
      "M", "A", "I", "L", "]">>

\* C18 as stated: on "Call 555-123-4567 or email a@b.com" with the candidate
\* spans (5,17,PHONE) and (21,28,EMAIL) both spans are accepted and the text
\* returned is exactly "Call [PHONE] or email [EMAIL]".
C18_Scenario ==
    (AnonymizeReturned /\ Elems(given) = {PhoneSpan, EmailSpanAsGiven}) =>
       /\ Elems(result[1].entities) = {PhoneSpan, EmailSpanAsGiven}
       /\ result[1].text = ScenarioOutput

\* C18, amended: on that text with the candidate spans (5,17,PHONE) and
\* (27,34,EMAIL), the offsets of the phone number and of the address, both
\* spans are accepted, in this order, and the text returned is exactly
\* "Call [PHONE] or email [EMAIL]".
C18_ScenarioActualOffsets ==
    (AnonymizeReturned /\ Elems(given) = {PhoneSpan, EmailSpan}) =>
       /\ result[1].entities = <<PhoneSpan, EmailSpan>>
       /\ result[1].text = ScenarioOutput

\* the call has returned on the two candidates, handed over e-mail first
C18_Witness ==
    /\ AnonymizeReturned
    /\ given = <<EmailSpan, PhoneSpan>>
    /\ text = ScenarioText

\* the order (start ascending, end descending)
InSweepOrder(list) ==
    \A i \in 1..Len(list) : \A j \in (i + 1)..Len(list) :
       \/ list[i].start < list[j].start
       \/ list[i].start = list[j].start /\ list[i].end >= list[j].end

Sweeping == op = "anonymize_text" /\ pc = "filter"

\* what holds of the sweep in every state
SweepState ==
    /\ (op = "anonymize_text" /\ pc \in {"filter", "reconstruct", "returned"}) =>
          /\ InSweepOrder(matches)
          /\ SameMultiset(matches, given) \/ given = <<>>
    /\ Sweeping =>
          /\ idx \in 1..(Len(matches) + 1)
          /\ current_end = IF filtered = <<>> THEN 0 ELSE filtered[Len(filtered)].end

\* what holds of every step taken during the sweep and behind it
SweepStep ==
    /\ (Sweeping /\ idx <= Len(matches)) =>
          /\ pc' = "filter" /\ idx' = idx + 1 /\ matches' = matches
          /\ IF matches[idx].start >= current_end
                THEN /\ filtered' = Append(filtered, matches[idx])
                     /\ current_end' = matches[idx].end
                ELSE /\ filtered' = filtered
                     /\ current_end' = current_end
    /\ (Sweeping /\ idx > Len(matches)) => filtered' = filtered
    /\ (op = "anonymize_text" /\ pc = "reconstruct") => filtered' = filtered

\* C19: greedy sweep rule. The candidates are visited once each in the order
\* (start ascending, end descending); the one visited is accepted iff its
\* start >= current_end, where current_end is 0 before any acceptance and the
\* end of the span accepted last otherwise; a rejected candidate is never
\* added later and an accepted one is never removed.
C19_GreedySweep == [] SweepState /\ [][SweepStep]_vars

\* a sweep over three candidates that accepted the first, rejected the
\* second and accepted the third
C19_Witness ==
    /\ op = "anonymize_text" /\ pc = "reconstruct"
    /\ Len(matches) = 3
    /\ filtered = <<matches[1], matches[3]>>
    /\ matches[2].start < matches[1].end

Overlap(a, b) == a.start < b.end /\ b.start < a.end

\* the candidates of which the sweep rejected an occurrence
Rejected == { m \in Elems(matches) : Count(matches, m) > Count(filtered, m) }

\* C20: maximality. On well-formed candidates (0 <= start < end) every
\* rejected candidate overlaps an accepted span: none could be added to the
\* Resolved set without breaking non-overlap.
C20_Maximal ==
    Swept => \A m \in Rejected : \E f \in Elems(filtered) : Overlap(m, f)

\* a sweep that accepted two adjacent spans and rejected a candidate that
\* overlaps both of them
C20_Witness ==
    /\ Swept
    /\ Len(filtered) = 2 /\ filtered[1].end = filtered[2].start
    /\ \E m \in Rejected : \A f \in Elems(filtered) : Overlap(m, f)

----------------------------------------------------------------------------
(* Properties of the policy, of ties and of the round trip *)

NonOverlapping(spans) ==
    \A a \in spans : \A b \in spans : a # b => ~ Overlap(a, b)

\* the number of characters of the text that lie inside a span of the set
Covered(spans) ==
    Cardinality({ k \in 0..(Len(text) - 1) :
                    \E m \in spans : m.start <= k /\ k < m.end })

\* three candidates of which matches[i] is the leftmost, and the longer one
\* where another starts with it; it overlaps the two others, which are
\* disjoint and together longer than it
LongLeftmost(i) ==
    /\ Len(matches) = 3 /\ i \in 1..3
    /\ \A j \in (1..3) \ {i} :
          /\ \/ matches[i].start < matches[j].start
             \/ matches[i].start = matches[j].start /\ matches[i].end > matches[j].end
          /\ Overlap(matches[i], matches[j])
    /\ \A j \in (1..3) \ {i} : \A k \in (1..3) \ {i, j} :
          /\ ~ Overlap(matches[j], matches[k])
          /\ (matches[j].end - matches[j].start) + (matches[k].end - matches[k].start)
                > matches[i].end - matches[i].start

\* C21: the greedy policy is not globally optimal. On one long leftmost
\* candidate that overlaps two disjoint ones the Resolved set is the long span
\* alone, and another pairwise non-overlapping subset of the same candidates
\* has more spans and covers more characters.
C21_GreedyNotOptimal ==
    Swept => \A i \in 1..Len(matches) :
       LongLeftmost(i) =>
          /\ filtered = <<matches[i]>>
          /\ \E alt \in SUBSET Elems(matches) :
                /\ NonOverlapping(alt)
                /\ Cardinality(alt) > Len(filtered)
                /\ Covered(alt) > Covered(Elems(filtered))

\* a sweep over (0,2), (0,1) and (1,3) that kept (0,2) alone
C21_Witness ==
    /\ Swept /\ \E i \in 1..Len(matches) : LongLeftmost(i)
    /\ Ranges(matches) = <<<<0, 2>>, <<0, 1>>, <<1, 3>>>>
    /\ Len(filtered) = 1

\* the position of a label in the order the candidates are collected in: the
\* entries of regex_patterns in dictionary order, then the driver license
\* patterns, then the entities of the NLP model
CollectionRank(label) ==
    IF \E i \in 1..Len(regex_patterns) : regex_patterns[i] = label
       THEN CHOOSE i \in 1..Len(regex_patterns) : regex_patterns[i] = label
    ELSE IF \E i \in 1..Len(us_driver_license_patterns) :
               us_driver_license_patterns[i] = label
       THEN Len(regex_patterns)
            + (CHOOSE i \in 1..Len(us_driver_license_patterns) :
                  us_driver_license_patterns[i] = label)
    ELSE Len(regex_patterns) + Len(us_driver_license_patterns) + 1

HasBracket(s) == \E i \in 1..Len(s) : s[i] \in {"[", "]"}

LabelsOf(spans) == [i \in 1..Len(spans) |-> LabelChars(spans[i].label)]

\* C23: label round-trip. When the input text holds no "[" and no "]" (and
\* no label holds "]"), the tokens the evaluator's pattern \[(.*?)\] extracts
\* from the anonymized text are the labels of the Resolved set, in order and
\* in number.
C23_LabelRoundTrip ==
    /\ (result # <<>> /\ ~ HasBracket(text)) =>
          FindAll(result[1].text) = LabelsOf(result[1].entities)
    /\ (/\ op = "evaluate_anonymization"
        /\ pc \in {"expected", "actual", "returned"}
        /\ ~ HasBracket(text)) =>
          anonymized_entities = LabelsOf(result[1].entities)

\* an evaluation has returned on a text without brackets of which two spans
\* were replaced, under different labels
C23_Witness ==
    /\ EvaluateReturned /\ ~ HasBracket(text)
    /\ Len(result[1].entities) = 2
    /\ Len(anonymized_entities) = 2
    /\ anonymized_entities[1] # anonymized_entities[2]

\* C24: duplicate correct labels are not penalized. For a label that occurs
\* in the expected list and in the actual list, further occurrences of it in
\* the actual list, wherever they are put, leave Precision, Recall and F1 as
\* they are.
C24_DuplicatesNotPenalized ==
    EvaluateReturned =>
       \A x \in Elems(expected_entities) \cap Elems(anonymized_entities) :
          \A k \in 0..Len(anonymized_entities) :
             LET once == SubSeq(anonymized_entities, 1, k) \o <<x>>
                         \o SubSeq(anonymized_entities, k + 1, Len(anonymized_entities))
                 twice == SubSeq(anonymized_entities, 1, k) \o <<x, x>>
                          \o SubSeq(anonymized_entities, k + 1, Len(anonymized_entities))
             IN  /\ EvaluateOp(expected_entities, once) = metrics[1]
                 /\ EvaluateOp(expected_entities, twice) = metrics[1]

\* an evaluation with a true positive, a false negative and a false positive,
\* whose metrics are neither 0 nor 1
C24_Witness ==
    /\ EvaluateReturned
    /\ Elems(expected_entities) \cap Elems(anonymized_entities) # {}
    /\ MissCount(expected_entities, anonymized_entities) >= 1
    /\ SpuriousCount(expected_entities, anonymized_entities) >= 1
    /\ metrics[1].Precision \notin {Zero, One}
    /\ metrics[1].Recall \notin {Zero, One}

----------------------------------------------------------------------------
(* Properties of evaluate_test_cases, of the state kept and of the variants *)

\* what holds of evaluate_test_cases when it has returned
PooledState ==
    TestCasesReturned =>
       LET tp == TruePositives(y_true, y_pred)
           fp == FalsePositives(y_true, y_pred)
           fn == FalseNegatives(y_true, y_pred)
           m == metrics[1]
       IN  /\ m.Precision = (IF tp + fp = 0 THEN Zero ELSE Rat(tp, tp + fp))
           /\ m.Recall = (IF tp + fn = 0 THEN Zero ELSE Rat(tp, tp + fn))
           /\ m.F1_score = (IF tp = 0 THEN Zero ELSE Rat(2 * tp, 2 * tp + fp + fn))
           /\ case_no = 1 =>
                 m = EvaluateOp(expected_entities, anonymized_entities)

\* what holds of the step that scores one case
PooledStep ==
    (op = "evaluate_test_cases" /\ pc = "case_findall" /\ pc' = "case") =>
       /\ TruePositives(y_true', y_pred') =
             TruePositives(y_true, y_pred)
             + HitCount(expected_entities', anonymized_entities')
       /\ FalseNegatives(y_true', y_pred') =
             FalseNegatives(y_true, y_pred)
             + MissCount(expected_entities', anonymized_entities')
       /\ FalsePositives(y_true', y_pred') =
             FalsePositives(y_true, y_pred)
             + SpuriousCount(expected_entities', anonymized_entities')

\* C25: pooled aggregation. evaluate_test_cases adds the TP, FP and FN of
\* every case, with token membership tested inside the case's own expected
\* and actual lists, and divides once at the end; on a list of exactly one
\* case it returns the Precision, Recall and F1 of evaluate_anonymization on
\* that case.
C25_PooledAggregation == [] PooledState /\ [][PooledStep]_vars

\* two cases were scored; the second added a true positive to counts that
\* held a false negative and a false positive, and the pooled metrics are
\* neither 0 nor 1
C25_Witness ==
    /\ TestCasesReturned /\ case_no = 2
    /\ HitCount(expected_entities, anonymized_entities) = 1
    /\ TruePositives(y_true, y_pred) = 1
    /\ FalseNegatives(y_true, y_pred) = 1
    /\ FalsePositives(y_true, y_pred) = 1

----------------------------------------------------------------------------
(* One RegexAnonymizer called again and again: nothing is cleared between
   the calls but what the next call itself creates afresh *)

\* the call is over and the same object is ready for the next one; ghost:
\* given keeps the text of the call that just ended
CallAgain ==
    /\ op = "anonymize_text" /\ pc \in {"returned", "raised"}
    /\ pc' = "idle"
    /\ given' = <<text>>
    /\ UNCHANGED <<text, op, idx, result>>
    /\ UNCHANGED anonVars
    /\ UNCHANGED evalVars
    /\ UNCHANGED excVars
    /\ UNCHANGED guiVars

NextCalls ==
    \/ AnonymizeCall \/ CollectRegex \/ CollectDriverLicense \/ CollectNlp
    \/ CollectNlpRaises
    \/ SortStep \/ FilterStep \/ FilterExit \/ ReconstructStep \/ AnonymizeReturn
    \/ CallAgain

SpecCalls == Init /\ [][NextCalls]_vars

\* a list the three sources can have collected on the text t, in any order:
\* spans of t, those of one label pairwise disjoint
CollectableOn(list, t) ==
    /\ \A m \in Elems(list) : WellFormed(m, Len(t))
    /\ \A i \in 1..Len(list) : \A j \in 1..Len(list) :
          (i # j /\ list[i].label = list[j].label) => ~ Overlap(list[i], list[j])

InCall == op = "anonymize_text" /\ pc # "idle"

\* what holds during every call, whatever calls came before
CallState ==
    /\ InCall => CollectableOn(matches, text)
    /\ AnonymizeReturned => result = <<AnonymizeOp(text, matches)>>

----------------------------------------------------------------------------
(* The standalone script chat-anaonymizer.py: anonymize_text (44-98) and
   evaluate_anonymization (101-127), as functions of the text and of the
   matches its three loops collected *)

\* the key of line 77 of the script, (m["start"], -m["end"])
SortKey(m) == <<m.start, 0 - m.end>>

\* tuple comparison key(a) < key(b)
KeyLess(a, b) ==
    \/ SortKey(a)[1] < SortKey(b)[1]
    \/ SortKey(a)[1] = SortKey(b)[1] /\ SortKey(a)[2] < SortKey(b)[2]

\* matches.sort(key=...): the first element of the smallest key, then the
\* others sorted the same way
RECURSIVE ScriptSorted(_)
ScriptSorted(ms) ==
    IF ms = <<>> THEN <<>>
    ELSE LET i == CHOOSE i \in 1..Len(ms) :
                     /\ \A j \in 1..Len(ms) : ~ KeyLess(ms[j], ms[i])
                     /\ \A j \in 1..(i - 1) : KeyLess(ms[i], ms[j])
         IN  <<ms[i]>> \o ScriptSorted(SubSeq(ms, 1, i - 1) \o SubSeq(ms, i + 1, Len(ms)))

\* the loop of lines 80-85 of the script on the rest of the sorted matches
RECURSIVE ScriptSweep(_, _, _)
ScriptSweep(ms, kept, end) ==
    IF ms = <<>> THEN kept
    ELSE IF Head(ms).start >= end
            THEN ScriptSweep(Tail(ms), Append(kept, Head(ms)), Head(ms).end)
            ELSE ScriptSweep(Tail(ms), kept, end)

\* the loop of lines 88-94 of the script on the rest of filtered
RECURSIVE ScriptRebuild(_, _, _, _)
ScriptRebuild(t, fl, out, last) ==
    IF fl = <<>> THEN out \o Slice(t, last, Len(t))
    ELSE ScriptRebuild(t, Tail(fl),
                       out \o Slice(t, last, Head(fl).start)
                           \o <<"[">> \o LabelChars(Head(fl).label) \o <<"]">>,
                       Head(fl).end)

\* the string the script's anonymize_text returns
anonymize_text(t, ms) == ScriptRebuild(t, ScriptSweep(ScriptSorted(ms), <<>>, 0), <<>>, 0)

\* y_true and y_pred of lines 110-117 of the script
ScriptVectors(expected, actual) ==
    LET spurious == { i \in 1..Len(actual) :
                        \A j \in 1..Len(expected) : expected[j] # actual[i] }
        n == Cardinality(spurious)
    IN  <<[i \in 1..Len(expected) |-> 1] \o [i \in 1..n |-> 0],
          [i \in 1..Len(expected) |->
              IF \E j \in 1..Len(actual) : actual[j] = expected[i] THEN 1 ELSE 0]
          \o [i \in 1..n |-> 1]>>

\* lines 107-127 of the script: the labels of both texts, the two vectors
\* and the three scores
ScriptScores(anonymized, labeled) ==
    LET v == ScriptVectors(FindAll(labeled), FindAll(anonymized))
    IN  [Precision |-> precision_score(v[1], v[2], ZeroDivision),
         Recall |-> recall_score(v[1], v[2], ZeroDivision),
         F1_score |-> f1_score(v[1], v[2], ZeroDivision)]

\* the script's evaluate_anonymization: line 106 anonymizes the raw text,
\* the rest scores the outcome
evaluate_anonymization(raw, ms, labeled) ==
    ScriptScores(anonymize_text(raw, ms), labeled)

MaxVariantItems == 2     \* longest labeled text the two evaluations are compared on

\* C27: variant equivalence. On the same text and the same candidates the
\* script's anonymize_text returns the string that is the text of the result
\* of RegexAnonymizer.anonymize_text, and against a labeled text the two
\* evaluate_anonymization functions return the same Precision, Recall and F1:
\* the script's scores the string its own anonymize_text returned (ScriptScores
\* of anonymized is evaluate_anonymization(text, given, lt)), the class's
\* scores the labels of the text of its own result.
C27_VariantEquivalence ==
    AnonymizeReturned =>
       LET anonymized == anonymize_text(text, given)
           actual == FindAll(result[1].text)
       IN  /\ anonymized = result[1].text
           /\ \A lt \in LabeledTexts(MaxVariantItems) :
                 ScriptScores(anonymized, lt) = EvaluateOp(FindAll(lt), actual)

\* the class has returned on three candidates handed over unsorted, two of
\* them on one range under different labels, and replaced two spans under
\* different labels
C27_Witness ==
    /\ AnonymizeReturned
    /\ Len(given) = 3 /\ SortMatches(given) # given /\ ~ NoRangeTie(given)
    /\ Len(result[1].entities) = 2
    /\ result[1].entities[1].label # result[1].entities[2].label

----------------------------------------------------------------------------
(* The event loop of AnonymizerGUI (gui/app.py 209-270, 302-304). Tk queues
   what the user does; root.mainloop() and the root.update() inside
   _set_loading_state dispatch the queue, nothing else does. A handler
   invoked from inside root.update() runs on top of the handler that called
   update(), which waits in stack. Which anonymizer is selected decides what
   the engine call does, so the call is a black box here: it returns or it
   raises. *)

MaxInputs == 4           \* most events the user produces in one behaviour

ClickEvent(h) == [kind |-> "click", on |-> h]
SelectEvent(name) == [kind |-> "select", on |-> name]

Frame(h, at) == [op |-> h, pc |-> at]

\* the engine calls in the try block of handler h: one, and for the test
\* cases generate_test_data, evaluate_test_cases and the anonymize_text of
\* _display_test_results (of its five calls the model keeps one)
EngineCalls(h) == IF h = "_run_test_cases_with_loading" THEN 3 ELSE 1

\* a button that runs its command whatever its state
ButtonInvokes_Always(state) == TRUE

\* a ttk.Button runs its command on a click unless its state is disabled
ButtonInvokes(state) == state # "disabled"

\* the places where Tk dispatches events: the main loop, and root.update()
\* of _set_loading_state(True) and of _set_loading_state(False)
Dispatching == pc \in {"idle", "update_loading", "update_released"}

\* the user clicks a button or a radio button, at any moment; Tk queues it
UserInput(e) ==
    /\ inputs < MaxInputs
    /\ inputs' = inputs + 1
    /\ pending' = Append(pending, e)
    /\ UNCHANGED <<text, op, pc, idx, result, given>>
    /\ UNCHANGED anonVars
    /\ UNCHANGED evalVars
    /\ UNCHANGED excVars
    /\ UNCHANGED <<buttons, dialog, cursor, current_anonymizer, stack, calling>>

UserClicks(h) == UserInput(ClickEvent(h))

UserSelects(name) == UserInput(SelectEvent(name))

\* a radio button click is dispatched: anonymizer_var takes its value and
\* _on_anonymizer_change runs                                   app.py 209-213
DispatchSelect ==
    /\ Dispatching /\ pending # <<>> /\ Head(pending).kind = "select"
    /\ current_anonymizer' = Head(pending).on
    /\ pending' = Tail(pending)
    /\ UNCHANGED <<text, op, pc, idx, result, given>>
    /\ UNCHANGED anonVars
    /\ UNCHANGED evalVars
    /\ UNCHANGED excVars
    /\ UNCHANGED <<buttons, dialog, cursor, stack, calling, inputs>>

\* a click on a disabled button is dispatched: nothing runs     app.py 266-268
DispatchDisabled ==
    /\ Dispatching /\ pending # <<>> /\ Head(pending).kind = "click"
    /\ ~ ButtonInvokes(buttons)
    /\ pending' = Tail(pending)
    /\ UNCHANGED <<text, op, pc, idx, result, given>>
    /\ UNCHANGED anonVars
    /\ UNCHANGED evalVars
    /\ UNCHANGED excVars
    /\ UNCHANGED <<buttons, dialog, cursor, current_anonymizer, stack, calling, inputs>>

\* a click on a button that is not disabled is dispatched: its handler reads
\* its boxes and warns and returns, or sets the loading state and enters
\* root.update()                  app.py 217-222, 234-240, 251, 263-270
DispatchClick ==
    /\ Dispatching /\ pending # <<>> /\ Head(pending).kind = "click"
    /\ ButtonInvokes(buttons)
    /\ pending' = Tail(pending)
    /\ LET h == Head(pending).on
       IN  \E raw \in RawBox(h), lab \in LabeledBox(h) :
              IF InputMissing(h, Strip(raw), Strip(lab))
                 THEN /\ dialog' = <<MessageBox("showwarning", "input")>>
                      /\ UNCHANGED <<op, pc, stack, buttons, cursor>>
                 ELSE /\ dialog' = <<>>
                      /\ stack' = IF pc = "idle" THEN stack
                                  ELSE Append(stack, Frame(op, pc))
                      /\ op' = h
                      /\ buttons' = LoadingState(TRUE)
                      /\ cursor' = LoadingCursor(TRUE)
                      /\ pc' = "update_loading"
    /\ UNCHANGED <<text, idx, result, given>>
    /\ UNCHANGED anonVars
    /\ UNCHANGED evalVars
    /\ UNCHANGED excVars
    /\ UNCHANGED <<current_anonymizer, calling, inputs>>

\* root.update() of _set_loading_state(True) finds the queue empty and
\* returns; the try block begins                     app.py 270, 223, 241, 252
UpdateReturnsToTry ==
    /\ pc = "update_loading" /\ pending = <<>>
    /\ pc' = "try" /\ idx' = 1
    /\ UNCHANGED <<text, op, result, given>>
    /\ UNCHANGED anonVars
    /\ UNCHANGED evalVars
    /\ UNCHANGED excVars
    /\ UNCHANGED guiVars

\* the handler calls a method of self.current_anonymizer   app.py 224, 242, 253-255
EngineCallStarts ==
    /\ op \in GuiHandlers /\ pc = "try"
    /\ calling' = Append(calling, current_anonymizer)
    /\ pc' = "in_call"
    /\ UNCHANGED <<text, op, idx, result, given>>
    /\ UNCHANGED anonVars
    /\ UNCHANGED evalVars
    /\ UNCHANGED excVars
    /\ UNCHANGED <<buttons, dialog, cursor, current_anonymizer, pending, stack, inputs>>

\* the method returns; the next call of the try block, or its end
EngineCallReturns ==
    /\ op \in GuiHandlers /\ pc = "in_call"
    /\ calling' = SubSeq(calling, 1, Len(calling) - 1)
    /\ IF idx < EngineCalls(op)
          THEN pc' = "try" /\ idx' = idx + 1
          ELSE pc' = "finally" /\ idx' = idx
    /\ UNCHANGED <<text, op, result, given>>
    /\ UNCHANGED anonVars
    /\ UNCHANGED evalVars
    /\ UNCHANGED excVars
    /\ UNCHANGED <<buttons, dialog, cursor, current_anonymizer, pending, stack, inputs>>

\* the method raises an Exception
EngineCallRaises ==
    /\ op \in GuiHandlers /\ pc = "in_call"
    /\ calling' = SubSeq(calling, 1, Len(calling) - 1)
    /\ error' = <<"Exception">>
    /\ pc' = "except"
    /\ UNCHANGED <<text, op, idx, result, given, completed>>
    /\ UNCHANGED anonVars
    /\ UNCHANGED evalVars
    /\ UNCHANGED <<buttons, dialog, cursor, current_anonymizer, pending, stack, inputs>>

\* finally: self._set_loading_state(False), up to its root.update()
\*                                       app.py 229-230, 246-247, 258-259, 263-269
SetLoadingFalse ==
    /\ op \in GuiHandlers /\ pc = "finally"
    /\ buttons' = LoadingState(FALSE)
    /\ cursor' = LoadingCursor(FALSE)
    /\ pc' = "update_released"
    /\ UNCHANGED <<text, op, idx, result, given, dialog>>
    /\ UNCHANGED anonVars
    /\ UNCHANGED evalVars
    /\ UNCHANGED excVars
    /\ UNCHANGED eventVars

\* root.update() of _set_loading_state(False) finds the queue empty and
\* returns; the handler returns to whoever dispatched its click: the main
\* loop, or the root.update() of the handler suspended last    app.py 270
HandlerReturns ==
    /\ pc = "update_released" /\ pending = <<>>
    /\ IF stack = <<>>
          THEN op' = "none" /\ pc' = "idle" /\ stack' = stack
          ELSE /\ op' = stack[Len(stack)].op
               /\ pc' = stack[Len(stack)].pc
               /\ stack' = SubSeq(stack, 1, Len(stack) - 1)
    /\ UNCHANGED <<text, idx, result, given>>
    /\ UNCHANGED anonVars
    /\ UNCHANGED evalVars
    /\ UNCHANGED excVars
    /\ UNCHANGED <<buttons, dialog, cursor, current_anonymizer, pending, calling, inputs>>

\* what the user does
NextUser ==
    \/ (\E h \in GuiHandlers : UserClicks(h))
    \/ (\E k \in 1..Len(Anonymizers) : UserSelects(Anonymizers[k]))

\* what the program does
NextGuiProgram ==
    \/ DispatchSelect \/ DispatchDisabled \/ DispatchClick
    \/ UpdateReturnsToTry
    \/ EngineCallStarts \/ EngineCallReturns \/ EngineCallRaises
    \/ GuiExcept
    \/ SetLoadingFalse \/ HandlerReturns

NextGui == NextUser \/ NextGuiProgram

SpecGui == Init /\ [][NextGui]_vars

\* the main loop and the interpreter keep running: a step the program can
\* take is taken (an engine call ends, a message box is dismissed); no click
\* is assumed of the user
SpecGuiFair == SpecGui /\ WF_vars(NextGuiProgram)

----------------------------------------------------------------------------
(* Properties of the GUI *)

Loading == buttons = "disabled"

Released == buttons = "normal" /\ cursor = ""

\* what holds of the loading state in every state
LoadingStateInv ==
    /\ Loading <=> cursor = "wait"
    /\ Loading \/ Released
    /\ pc \in {"idle", "update_released"} => Released
    /\ pc \in {"update_loading", "try", "in_call", "except", "finally"} => Loading

\* what holds of the step by which a handler that entered the loading state
\* returns
HandlerReturnStep ==
    (/\ pc = "update_released" /\ pending = <<>>
     /\ <<op, pc, stack>>' # <<op, pc, stack>>) => Released'

\* C28: the loading state is always released. Every run of a handler that
\* entered the loading state ends with the three buttons in state normal and
\* the cursor reset, whether its engine call returned or raised; the GUI
\* never stays in the loading state.
C28_LoadingReleased ==
    /\ [] LoadingStateInv
    /\ [][HandlerReturnStep]_vars
    /\ (Loading ~> Released)

\* a handler whose engine call raised has shown the error dialog and released
\* the loading state, on top of another handler that waits in root.update()
C28_Witness ==
    /\ op \in GuiHandlers /\ pc = "update_released"
    /\ dialog # <<>> /\ dialog[1].kind = "showerror"
    /\ stack # <<>>
    /\ Released

CallInFlight == calling # <<>>

\* C29: one call at a time. Under every interleaving of button clicks and
\* radio-button selections with the event dispatch of root.update(), at most
\* one engine call is in flight, the three action buttons are disabled while
\* it is, and current_anonymizer is, from the start of the call to its end,
\* the anonymizer the call was made on.
C29_OneCallAtATime ==
    /\ Len(calling) <= 1
    /\ CallInFlight =>
          /\ op \in GuiHandlers /\ pc = "in_call"
          /\ buttons = "disabled"
          /\ current_anonymizer = calling[1]

\* an engine call is in flight on the second anonymizer, selected before
\* the call began, while a selection of the first one waits in the queue
C29_Witness ==
    /\ CallInFlight
    /\ current_anonymizer = Anonymizers[2]
    /\ pending = <<SelectEvent(Anonymizers[1])>>

====
